---- MODULE Spec2Model ----
(***************************************************************************)
(* GESProject (ges-project.c): the asset registry of a project and the     *)
(* asynchronous resolution of asset identifiers, with the relocation of an *)
(* identifier whose resolution failed, and the generation of proxy files   *)
(* for the assets of the registry.                                         *)
(*                                                                         *)
(* The C functions are operators over a record p holding the fields of     *)
(* GESProjectPrivate and what the running handler has emitted, issued and  *)
(* returned so far; an action takes the program state, applies one API     *)
(* call or one callback to it and commits the result.                      *)
(***************************************************************************)
EXTENDS Naturals, Sequences, FiniteSets, Bags, TLC

NULL == "NULL"

\* Asset identifiers the clients and the observers use: two valid URIs.
Ids == {"file:///a.mov", "file:///b.mov"}

\* A string an observer of missing-uri may answer that is no URI.
BadUri == "b.mov"

\* Extractable types assets are requested with; GESExtractable is the
\* interface all of them implement.
Types == {"GESUriClip", "GESTimeline"}
GES_TYPE_EXTRACTABLE == "GESExtractable"

Errors == {"not-found"}

\* Outstanding provider requests the clients may have issued at one time.
MaxRequests == 2
\* Handlers connected to missing-uri while assets are resolved.
MaxObservers == 1
\* Handlers connected to missing-uri when the emission is checked alone.
MaxHandlers == 3

VARIABLES
  assets,             \* priv->assets: id -> asset
  loading_assets,     \* priv->loading_assets: id -> asset
  loaded_with_error,  \* priv->loaded_with_error: set of ids
  requests,           \* bag of ges_asset_request_async calls not yet answered
  proxy_profile,      \* priv->proxy_profile
  proxied_assets,     \* priv->proxied_assets: id -> profile
  proxies,            \* priv->proxies: id -> asset
  create_proxies,     \* priv->create_proxies: the list and the node pointed at
  proxy_parent,       \* priv->proxy_parent
  proxy_asset,        \* priv->proxy_asset
  proxy_uri,          \* priv->proxy_uri
  proxy_pipeline,     \* priv->proxy_pipeline: a pipeline, alive or not
  pipelines,          \* the pipelines not yet freed: pipeline -> its state
  proxies_creation_started,
  proxies_created,
  cancellable,        \* the GCancellable of the clients: the handlers of the
                      \* project connected to it, whether it is cancelled, and
                      \* whether a handler has torn the generation down
  timeline_proxies,   \* priv->timeline_proxies: the timelines that use proxies
  timelines,          \* the timelines of the clients: timeline -> the assets of
                      \* its clips, layer after layer
  priv_uri,           \* priv->uri
  formatters,         \* priv->formatters
  timeline_assets,    \* the timelines of the clients: timeline -> the asset it
                      \* was extracted from: none, this project or another
  last                \* the call or callback of the last step and what it did

registry == <<assets, loading_assets, loaded_with_error, requests>>
generation ==
  <<proxy_profile, proxied_assets, proxies, create_proxies, proxy_parent,
    proxy_asset, proxy_uri, proxy_pipeline, pipelines,
    proxies_creation_started, proxies_created, cancellable>>
binding == <<timeline_proxies, timelines>>
saving == <<priv_uri, formatters, timeline_assets>>
vars == <<registry, generation, binding, saving, last>>

----------------------------------------------------------------------------
(* GHashTable *)

EmptyTable == [k \in {} |-> NULL]
g_hash_table_contains(t, k) == k \in DOMAIN t
g_hash_table_insert(t, k, v) == [x \in DOMAIN t \cup {k} |-> IF x = k THEN v ELSE t[x]]
g_hash_table_remove(t, k) == [x \in DOMAIN t \ {k} |-> t[x]]

(* Assets: an asset has an id and an extractable type *)

Asset(id, type) == [id |-> id, type |-> type]
NoAsset == Asset(NULL, NULL)
Handles == {Asset(id, t) : id \in Ids, t \in Types}

g_type_name(type) == type
g_type_is_a(type, is_a_type) ==
  /\ type \in Types \cup {GES_TYPE_EXTRACTABLE}
  /\ type = is_a_type \/ is_a_type = GES_TYPE_EXTRACTABLE
\* A protocol, which begins with a letter, and a colon after it.
gst_uri_is_valid(s) ==
  LET letters ==
        {"a", "b", "c", "d", "e", "f", "g", "h", "i", "j", "k", "l", "m", "n",
         "o", "p", "q", "r", "s", "t", "u", "v", "w", "x", "y", "z"}
      others == {"0", "1", "2", "3", "4", "5", "6", "7", "8", "9", "+", "-", "."}
  IN  /\ s # NULL
      /\ \E colon \in 2..Len(s) :
           /\ SubSeq(s, colon, colon) = ":"
           /\ SubSeq(s, 1, 1) \in letters
           /\ \A i \in 2..(colon - 1) : SubSeq(s, i, i) \in letters \cup others

(* Signals *)

AssetAdded(asset) == [sig |-> "asset-added", asset |-> asset]
AssetRemoved(asset) == [sig |-> "asset-removed", asset |-> asset]
ErrorLoadingAsset(error, id, type) ==
  [sig |-> "error-loading-asset", error |-> error, id |-> id, type |-> type]

\* No missing-uri emission.
NoMissingUri == [sent |-> FALSE, answers |-> <<>>, invoked |-> 0, result |-> NULL]

\* An accumulator that takes a valid answer and lets the emission go on.
Mutant_accumulator_goes_on(return_accu, handler_return) ==
  IF handler_return # NULL /\ gst_uri_is_valid(handler_return)
  THEN [accu |-> handler_return, continue |-> TRUE]
  ELSE [accu |-> return_accu, continue |-> TRUE]

\* The accumulator of missing-uri: keeps the first answer that is a valid
\* URI and stops the emission there.
_uri_missing_accumulator(return_accu, handler_return) ==
  IF handler_return # NULL /\ gst_uri_is_valid(handler_return)
  THEN [accu |-> handler_return, continue |-> FALSE]
  ELSE [accu |-> return_accu, continue |-> TRUE]

\* g_signal_emit of missing-uri: the handlers run in connection order,
\* answers[i] being what the i-th one returns if it is run, and the
\* accumulator decides after each whether the next one runs.
RECURSIVE EmitMissingUriFrom(_, _, _)
EmitMissingUriFrom(answers, i, accu) ==
  IF i > Len(answers)
  THEN [sent |-> TRUE, answers |-> answers, invoked |-> i - 1, result |-> accu]
  ELSE LET r == _uri_missing_accumulator(accu, answers[i])
       IN  IF r.continue
           THEN EmitMissingUriFrom(answers, i + 1, r.accu)
           ELSE [sent |-> TRUE, answers |-> answers, invoked |-> i, result |-> r.accu]

EmitMissingUri(answers) == EmitMissingUriFrom(answers, 1, NULL)

----------------------------------------------------------------------------
(* The project *)

Priv ==
  [assets |-> assets, loading_assets |-> loading_assets,
   loaded_with_error |-> loaded_with_error, requests |-> requests,
   proxy_profile |-> proxy_profile, proxied_assets |-> proxied_assets,
   proxies |-> proxies, create_proxies |-> create_proxies,
   proxy_parent |-> proxy_parent, proxy_asset |-> proxy_asset,
   proxy_uri |-> proxy_uri, proxy_pipeline |-> proxy_pipeline,
   pipelines |-> pipelines,
   proxies_creation_started |-> proxies_creation_started,
   proxies_created |-> proxies_created,
   cancellable |-> cancellable,
   timeline_proxies |-> timeline_proxies, timelines |-> timelines,
   uri |-> priv_uri, formatters |-> formatters, timeline_assets |-> timeline_assets,
   saved |-> FALSE,    \* ges_formatter_save_to_uri was called and returned TRUE
   emitted |-> <<>>, issued |-> <<>>, ret |-> FALSE,
   renamed |-> <<>>,   \* the files the call renamed, in order
   committed |-> <<>>, \* the timelines the call committed, in order, and what
                       \* the call had done by then
   aborted |-> FALSE,  \* the process dereferenced NULL and is gone
   over |-> FALSE]     \* a bound of the model was passed

Request(type, id, callback) == [id |-> id, type |-> type, cb |-> callback]

\* The provider: the request is outstanding until its callback is run.
ges_asset_request_async(p, extractable_type, id, callback) ==
  LET r == Request(extractable_type, id, callback)
  IN  [p EXCEPT !.requests = @ (+) SetToBag({r}), !.issued = Append(@, r)]

\* cached: whether ges_asset_cache_lookup finds an asset for the type and id.
ges_project_add_loading_asset(p, extractable_type, id, cached) ==
  IF cached
  THEN [p EXCEPT !.loading_assets =
                   g_hash_table_insert(@, id, Asset(id, extractable_type))]
  ELSE p

ges_project_create_asset(p, id0, extractable_type, cached) ==
  LET id == IF id0 = NULL THEN g_type_name(extractable_type) ELSE id0
  IN  IF \/ g_hash_table_contains(p.assets, id)
         \/ g_hash_table_contains(p.loading_assets, id)
         \/ id \in p.loaded_with_error
      THEN [p EXCEPT !.ret = FALSE]
      ELSE [ges_project_add_loading_asset(
              ges_asset_request_async(p, extractable_type, id, "new_asset_cb"),
              extractable_type, id, cached)
            EXCEPT !.ret = TRUE]

\* An add that leaves the identifier in the Loading set.
Mutant_add_asset_keeps_loading(p, asset) ==
  IF g_hash_table_contains(p.assets, asset.id)
  THEN [p EXCEPT !.ret = FALSE]
  ELSE [p EXCEPT !.assets = g_hash_table_insert(@, asset.id, asset),
                 !.emitted = Append(@, AssetAdded(asset)),
                 !.ret = TRUE]

ges_project_add_asset(p, asset) ==
  IF g_hash_table_contains(p.assets, asset.id)
  THEN [p EXCEPT !.ret = FALSE]
  ELSE [p EXCEPT !.assets = g_hash_table_insert(@, asset.id, asset),
                 !.loading_assets = g_hash_table_remove(@, asset.id),
                 !.emitted = Append(@, AssetAdded(asset)),
                 !.ret = TRUE]

\* A remove that takes the proxy of the asset along.
Mutant_remove_asset_drops_proxy(p, asset) ==
  [p EXCEPT !.ret = g_hash_table_contains(p.assets, asset.id),
            !.assets = g_hash_table_remove(@, asset.id),
            !.proxies = g_hash_table_remove(@, asset.id \o ".proxy"),
            !.emitted = Append(@, AssetRemoved(asset))]

ges_project_remove_asset(p, asset) ==
  [p EXCEPT !.ret = g_hash_table_contains(p.assets, asset.id),
            !.assets = g_hash_table_remove(@, asset.id),
            !.emitted = Append(@, AssetRemoved(asset))]

\* The asset found, NoAsset for NULL.
ges_project_get_asset(p, id, extractable_type) ==
  IF g_hash_table_contains(p.assets, id) THEN p.assets[id] ELSE NoAsset

\* An error report that does not record the identifier as failed.
Mutant_send_error_not_recorded(p, asset, error) ==
  [p EXCEPT !.loading_assets = g_hash_table_remove(@, asset.id),
            !.emitted = Append(@, ErrorLoadingAsset(error, asset.id, asset.type))]

_send_error_loading_asset(p, asset, error) ==
  [p EXCEPT !.loading_assets = g_hash_table_remove(@, asset.id),
            !.loaded_with_error = @ \cup {asset.id},
            !.emitted = Append(@, ErrorLoadingAsset(error, asset.id, asset.type))]

\* A relocation that emits missing-uri whenever the asset does not decline.
Mutant_try_updating_id_always_asks(p, asset, error, update, answers, proxy_ok) ==
  IF ~update.ok
  THEN [p |-> _send_error_loading_asset(p, asset, error),
        new_id |-> NULL, mu |-> NoMissingUri]
  ELSE LET mu == EmitMissingUri(answers)
           found == IF update.new_id = NULL THEN mu.result ELSE update.new_id
           new_id == IF found # NULL /\ ~proxy_ok THEN NULL ELSE found
           p1 == [p EXCEPT !.loading_assets = g_hash_table_remove(@, asset.id)]
       IN  [p |-> IF new_id = NULL
                  THEN _send_error_loading_asset(p1, asset, error)
                  ELSE p1,
            new_id |-> new_id, mu |-> mu]

\* A relocation that leaves the identifier in the Loading set when it found
\* a replacement.
Mutant_try_updating_id_keeps_loading(p, asset, error, update, answers, proxy_ok) ==
  IF ~update.ok
  THEN [p |-> _send_error_loading_asset(p, asset, error),
        new_id |-> NULL, mu |-> NoMissingUri]
  ELSE LET mu == IF update.new_id = NULL THEN EmitMissingUri(answers)
                 ELSE NoMissingUri
           found == IF update.new_id = NULL THEN mu.result ELSE update.new_id
           new_id == IF found # NULL /\ ~proxy_ok THEN NULL ELSE found
       IN  [p |-> IF new_id = NULL
                  THEN _send_error_loading_asset(p, asset, error)
                  ELSE p,
            new_id |-> new_id, mu |-> mu]

\* update: what ges_asset_request_id_update answers, [ok, new_id];
\* answers: what the handlers of missing-uri return, in connection order;
\* proxy_ok: what ges_asset_set_proxy returns.
\* The result is the project, the new id (NULL for none) and the emission
\* of missing-uri.
ges_project_try_updating_id(p, asset, error, update, answers, proxy_ok) ==
  IF ~update.ok
  THEN [p |-> _send_error_loading_asset(p, asset, error),
        new_id |-> NULL, mu |-> NoMissingUri]
  ELSE LET mu == IF update.new_id = NULL THEN EmitMissingUri(answers)
                 ELSE NoMissingUri
           found == IF update.new_id = NULL THEN mu.result ELSE update.new_id
           new_id == IF found # NULL /\ ~proxy_ok THEN NULL ELSE found
           p1 == [p EXCEPT !.loading_assets = g_hash_table_remove(@, asset.id)]
       IN  [p |-> IF new_id = NULL
                  THEN _send_error_loading_asset(p1, asset, error)
                  ELSE p1,
            new_id |-> new_id, mu |-> mu]

\* res: [asset, error], error = NULL when the request succeeded.
\* source is the asset the request was made for.
new_asset_cb(p, source, res, update, answers, proxy_ok, cached) ==
  IF res.error # NULL
  THEN LET u == ges_project_try_updating_id(p, source, res.error, update,
                                            answers, proxy_ok)
       IN  IF u.new_id = NULL
           THEN u
           ELSE [u EXCEPT !.p = ges_project_create_asset(u.p, u.new_id,
                                                         source.type, cached)]
  ELSE [p |-> ges_project_add_asset(p, res.asset),
        new_id |-> NULL, mu |-> NoMissingUri]

----------------------------------------------------------------------------
(* Proxy generation.  Reference counts are not modelled; priv->proxies_location
   and priv->timeline_proxies keep their initial NULL, as nothing here sets
   them. *)

\* Encoding profiles: the one the project is given and one given to an asset.
Profiles == {"proxy-profile", "asset-profile"}
GST_IS_ENCODING_PROFILE(profile) == profile \in Profiles

GES_IS_URI_CLIP_ASSET(asset) == asset.type = "GESUriClip"
ges_asset_get_id(asset) == asset.id
ges_asset_get_extractable_type(asset) == asset.type

g_hash_table_lookup(t, k) == IF k \in DOMAIN t THEN t[k] ELSE NoAsset

\* Strings
Min(S) == CHOOSE i \in S : \A j \in S : i <= j
g_strconcat(string1, string2) ==
  IF string1 = NULL THEN NULL ELSE string1 \o string2
g_str_has_prefix(str, prefix) ==
  /\ str # NULL
  /\ Len(str) >= Len(prefix)
  /\ SubSeq(str, 1, Len(prefix)) = prefix
g_str_has_suffix(str, suffix) ==
  /\ str # NULL
  /\ Len(str) >= Len(suffix)
  /\ SubSeq(str, Len(str) - Len(suffix) + 1, Len(str)) = suffix
\* Element [0] of g_strsplit (string, delimiter, 2): what comes before the
\* first occurrence of the delimiter.
g_strsplit(string, delimiter) ==
  LET at == {i \in 1..Len(string) :
               /\ i + Len(delimiter) - 1 <= Len(string)
               /\ SubSeq(string, i, i + Len(delimiter) - 1) = delimiter}
  IN  IF at = {} THEN string ELSE SubSeq(string, 1, Min(at) - 1)
g_filename_from_uri(uri) ==
  IF g_str_has_prefix(uri, "file://")
  THEN SubSeq(uri, Len("file://") + 1, Len(uri))
  ELSE NULL
gst_filename_to_uri(filename) ==
  IF filename = NULL THEN NULL ELSE "file://" \o filename

\* A GList and the node of it a pointer is at; at = 0 is the NULL pointer.
NoList == [list |-> <<>>, at |-> 0]
g_list_last(l) == [l EXCEPT !.at = Len(l.list)]
g_list_previous(l) == IF l.at = 0 THEN NoList ELSE [l EXCEPT !.at = l.at - 1]
g_list_data(l) == l.list[l.at]

\* Pipelines.  proxy_pipeline is never reset: once the pipeline it names is
\* unreferenced it names no pipeline of the table.
\* Pipelines alive at one time where the registry is checked with the proxies.
MaxPipelines == 1
\* Pipelines alive at one time where the run of the generation is checked.
MaxEngines == 2
NoPipeline == 0
Pipelines == 1..MaxEngines
gst_pipeline_new(p) ==
  IF Pipelines \subseteq DOMAIN p.pipelines
  THEN NoPipeline
  ELSE Min(Pipelines \ DOMAIN p.pipelines)
\* is_element: what the type check reads in the memory of a freed pipeline.
GST_IS_ELEMENT(p, pipeline, is_element) ==
  /\ pipeline # NoPipeline
  /\ pipeline \in DOMAIN p.pipelines \/ is_element
\* state_ok: whether the state change does not fail.
gst_element_set_state(p, pipeline, state, state_ok) ==
  IF pipeline \in DOMAIN p.pipelines /\ state_ok
  THEN [p EXCEPT !.pipelines[pipeline].state = state]
  ELSE p
\* The bus of the pipeline posts no message any more.
gst_bus_set_flushing(p, pipeline) ==
  IF pipeline \in DOMAIN p.pipelines
  THEN [p EXCEPT !.pipelines[pipeline].bus = FALSE]
  ELSE p
gst_object_unref(p, pipeline) ==
  [p EXCEPT !.pipelines = g_hash_table_remove(@, pipeline)]

Signal(sig) == [sig |-> sig]

Mutant_add_proxy_replaces(p, asset) ==
  [p EXCEPT !.ret = ~g_hash_table_contains(p.proxies, ges_asset_get_id(asset)),
            !.proxies = g_hash_table_insert(@, ges_asset_get_id(asset), asset)]
_add_proxy(p, asset) ==
  IF g_hash_table_contains(p.proxies, ges_asset_get_id(asset))
  THEN [p EXCEPT !.ret = FALSE]
  ELSE [p EXCEPT !.ret = TRUE,
                 !.proxies = g_hash_table_insert(@, ges_asset_get_id(asset), asset)]

_get_outuri(p, uri) == g_strconcat(uri, ".proxy")

_create_proxy_asset(p, id, extractable_type) ==
  IF id = NULL \/ ~g_type_is_a(extractable_type, GES_TYPE_EXTRACTABLE)
  THEN [p EXCEPT !.ret = FALSE]
  ELSE IF g_hash_table_contains(p.proxies, id)
       THEN [p EXCEPT !.ret = FALSE]
       ELSE [ges_asset_request_async(p, extractable_type, id,
                                     "new_proxy_asset_cb")
             EXCEPT !.ret = TRUE]


\* state_ok: whether the pipeline could be set to PLAYING.
_transcode(p, asset, state_ok) ==
  LET uri == ges_asset_get_id(asset)
      outuri == g_strconcat(_get_outuri(p, uri), ".part")
      pipeline == gst_pipeline_new(p)
      q == [p EXCEPT !.over = @ \/ pipeline = NoPipeline,
                     !.proxy_uri = outuri,
                     !.proxy_asset = asset,
                     !.proxy_pipeline = pipeline,
                     !.pipelines = g_hash_table_insert(@, pipeline,
                         [state |-> "GST_STATE_NULL", bus |-> TRUE,
                          profile |-> p.proxy_profile,
                          uri |-> uri, sink |-> outuri])]
  IN  [gst_element_set_state(q, pipeline, "GST_STATE_PLAYING", state_ok)
       EXCEPT !.ret = state_ok]

g_rename(p, oldfilename, newfilename) ==
  [p EXCEPT !.renamed = Append(@, [old |-> oldfilename, new |-> newfilename])]

\* sender: the pipeline whose bus posted the message.
bus_message_cb(p, sender, type) ==
  IF type = "GST_MESSAGE_ERROR"
  THEN gst_object_unref(
         gst_element_set_state(gst_bus_set_flushing(p, sender),
                               p.proxy_pipeline, "GST_STATE_NULL", TRUE),
         p.proxy_pipeline)
  ELSE IF type = "GST_MESSAGE_EOS"
  THEN LET q == gst_object_unref(
                  gst_element_set_state(p, p.proxy_pipeline,
                                        "GST_STATE_NULL", TRUE),
                  p.proxy_pipeline)
           oldfilename == g_filename_from_uri(q.proxy_uri)
           newfilename == g_strsplit(oldfilename, ".part")
           extractable_type == ges_asset_get_extractable_type(q.proxy_asset)
       IN  IF g_str_has_suffix(q.proxy_uri, ".part")
           THEN IF oldfilename = NULL
                THEN [q EXCEPT !.aborted = TRUE]
                ELSE _create_proxy_asset(
                       g_rename([q EXCEPT !.proxy_uri = gst_filename_to_uri(newfilename)],
                                oldfilename, newfilename),
                       gst_filename_to_uri(newfilename), extractable_type)
           ELSE _create_proxy_asset(q, q.proxy_uri, extractable_type)
  ELSE p

\* order: the order in which the iteration visits the keys of priv->assets.
Orders(t) ==
  {o \in [1..Cardinality(DOMAIN t) -> DOMAIN t] :
     \A i, j \in DOMAIN o : o[i] = o[j] => i = j}
_get_create_proxies_list(p, order) ==
  LET values == [i \in DOMAIN order |-> p.assets[order[i]]]
      ret == SelectSeq(values, GES_IS_URI_CLIP_ASSET)
  IN  IF ret = <<>> THEN NoList ELSE [list |-> ret, at |-> 1]

ges_project_get_proxy_profile(p, asset) ==
  IF asset # NoAsset
  THEN IF GES_IS_URI_CLIP_ASSET(asset)
          /\ g_hash_table_contains(p.proxied_assets, ges_asset_get_id(asset))
       THEN p.proxied_assets[ges_asset_get_id(asset)]
       ELSE NULL
  ELSE p.proxy_profile

\* The job the pointer is at, or the end of the run when it is at none.
NextProxy(p, cur_proxy) ==
  IF cur_proxy.at # 0
  THEN LET asset == g_list_data(cur_proxy)
           uri == ges_asset_get_id(asset)
           outuri == _get_outuri(p, uri)
           extractable_type == ges_asset_get_extractable_type(asset)
       IN  _create_proxy_asset(
             [p EXCEPT !.proxy_parent = asset, !.proxy_uri = uri,
                       !.create_proxies = cur_proxy],
             outuri, extractable_type)
  ELSE [p EXCEPT !.proxies_created = TRUE,
                 !.emitted = Append(@, Signal("proxies-created"))]

_create_proxies(p, order) ==
  LET profile == ges_project_get_proxy_profile(p, NoAsset)
  IN  IF GST_IS_ENCODING_PROFILE(profile)
      THEN LET q == IF p.proxies_creation_started = FALSE
                    THEN [p EXCEPT !.proxies_creation_started = TRUE,
                                   !.emitted = Append(@,
                                       Signal("proxies-creation-started"))]
                    ELSE p
               l == _get_create_proxies_list(q, order)
           IN  [NextProxy([q EXCEPT !.create_proxies = l], g_list_last(l))
                EXCEPT !.ret = TRUE]
      ELSE [p EXCEPT !.ret = TRUE]

g_list_find(list, data) == \E i \in DOMAIN list : list[i] = data
g_list_append(list, data) == Append(list, data)
\* Removes the first node that holds data.
g_list_remove(list, data) ==
  IF ~g_list_find(list, data) THEN list
  ELSE LET i == CHOOSE i \in DOMAIN list :
                  list[i] = data /\ \A j \in 1..(i - 1) : list[j] # data
       IN  SubSeq(list, 1, i - 1) \o SubSeq(list, i + 1, Len(list))

g_strcmp0(str1, str2) == IF str1 = str2 THEN 0 ELSE 1

\* The loop over the timelines that use proxies, their layers and the clips:
\* a clip whose asset has the identifier of priv->proxy_parent is given asset.
\* Each of those timelines is committed after its clips.
SetProxyAssetForClips(p, asset) ==
  [p EXCEPT !.timelines =
     [timeline \in DOMAIN @ |->
        IF g_list_find(p.timeline_proxies, timeline)
        THEN [clip \in DOMAIN @[timeline] |->
                IF g_strcmp0(ges_asset_get_id(p.proxy_parent),
                             ges_asset_get_id(@[timeline][clip])) = 0
                THEN asset ELSE @[timeline][clip]]
        ELSE @[timeline]],
            !.committed =
     @ \o [i \in DOMAIN p.timeline_proxies |->
            [timeline |-> p.timeline_proxies[i],
             recorded |-> g_hash_table_contains(p.proxies, ges_asset_get_id(asset)),
             emitted |-> Len(p.emitted), issued |-> Len(p.issued)]]]

Mutant_new_proxy_asset_cb_adds_asset(p, source, res, state_ok) ==
  IF res.error # NULL
  THEN IF p.proxy_uri = NULL
       THEN [p EXCEPT !.aborted = TRUE]
       ELSE _transcode(p, g_hash_table_lookup(p.assets, p.proxy_uri), state_ok)
  ELSE NextProxy(SetProxyAssetForClips(
                   _add_proxy(ges_project_add_asset(p, res.asset), res.asset),
                   res.asset),
                 g_list_previous(p.create_proxies))
new_proxy_asset_cb(p, source, res, state_ok) ==
  IF res.error # NULL
  THEN IF p.proxy_uri = NULL
       THEN [p EXCEPT !.aborted = TRUE]
       ELSE _transcode(p, g_hash_table_lookup(p.assets, p.proxy_uri), state_ok)
  ELSE NextProxy(SetProxyAssetForClips(_add_proxy(p, res.asset), res.asset),
                 g_list_previous(p.create_proxies))

ges_project_set_proxy_profile(p, profile, asset) ==
  IF ~GST_IS_ENCODING_PROFILE(profile)
  THEN [p EXCEPT !.ret = FALSE]
  ELSE IF asset = NoAsset
       THEN [p EXCEPT !.proxy_profile = profile, !.ret = TRUE]
       ELSE IF ~GES_IS_URI_CLIP_ASSET(asset)
            THEN [p EXCEPT !.ret = FALSE]
            ELSE [p EXCEPT !.proxied_assets =
                             g_hash_table_insert(@, ges_asset_get_id(asset), profile),
                           !.ret = TRUE]

ges_project_get_loading_assets(p) == {p.loading_assets[id] : id \in DOMAIN p.loading_assets}

Mutant_use_proxies_appends(p, timeline, use_proxies) ==
  IF use_proxies = TRUE
  THEN [p EXCEPT !.timeline_proxies = g_list_append(@, timeline), !.ret = TRUE]
  ELSE IF g_list_find(p.timeline_proxies, timeline)
       THEN [p EXCEPT !.timeline_proxies = g_list_remove(@, timeline), !.ret = TRUE]
       ELSE [p EXCEPT !.ret = FALSE]
ges_project_use_proxies_for_timeline(p, timeline, use_proxies) ==
  IF use_proxies = TRUE
  THEN IF ~g_list_find(p.timeline_proxies, timeline)
       THEN [p EXCEPT !.timeline_proxies = g_list_append(@, timeline), !.ret = TRUE]
       ELSE [p EXCEPT !.ret = FALSE]
  ELSE IF g_list_find(p.timeline_proxies, timeline)
       THEN [p EXCEPT !.timeline_proxies = g_list_remove(@, timeline), !.ret = TRUE]
       ELSE [p EXCEPT !.ret = FALSE]

\* The project URI and the formatters.  The identifier of the project as an
\* asset, which ges_project_set_uri sets with the URI, is not modelled.
Mutant_set_uri_overwrites(p, new_uri) ==
  IF new_uri = NULL \/ ~gst_uri_is_valid(new_uri)
  THEN p
  ELSE [p EXCEPT !.uri = new_uri]
ges_project_set_uri(p, new_uri) ==
  IF p.uri # NULL
  THEN p
  ELSE IF new_uri = NULL \/ ~gst_uri_is_valid(new_uri)
       THEN p
       ELSE [p EXCEPT !.uri = new_uri]

\* The project the request of the asset returned, new or found in the cache.
ges_project_new(p, new_uri) ==
  IF new_uri # NULL THEN ges_project_set_uri(p, new_uri) ELSE p

\* A formatter that is none of the list.
ges_asset_extract(p) ==
  1 + Cardinality({f \in 1..Len(p.formatters) :
                     \E i \in DOMAIN p.formatters : p.formatters[i] >= f})
ges_project_add_formatter(p, formatter) ==
  [p EXCEPT !.formatters = g_list_append(@, formatter)]
ges_project_remove_formatter(p, formatter) ==
  [p EXCEPT !.formatters = g_list_remove(@, formatter)]

\* Formatters in priv->formatters at one time.
MaxFormatters == 2
\* extract_ok: a formatter asset is found and a formatter extracted from it;
\* load_ok: ges_formatter_load_from_uri sets no error.  The "loaded" signal
\* of a project without URI is emitted later, from the main loop.
_load_project(p, extract_ok, load_ok) ==
  IF p.uri = NULL
  THEN [p EXCEPT !.ret = TRUE]
  ELSE IF ~extract_ok
       THEN [p EXCEPT !.ret = FALSE]
       ELSE [ges_project_add_formatter(p, ges_asset_extract(p))
             EXCEPT !.ret = load_ok,
                    !.over = @ \/ Len(p.formatters) >= MaxFormatters]

GES_TYPE_FORMATTER == "GESFormatter"
\* The asset a timeline was extracted from.
ThisProject == "project"
OtherProject == "other-project"

\* cached: ges_asset_cache_lookup finds a project asset for the URI;
\* extract_ok: ges_asset_extract returns a formatter; save_ok:
\* ges_formatter_save_to_uri returns TRUE.
Mutant_save_sets_uri_of_failed_save(p, timeline, to_uri, formatter_asset, cached, extract_ok, save_ok) ==
  LET tl_asset == p.timeline_assets[timeline]
      \* out: with no formatter ges_project_remove_formatter finds nothing.
      out(q, formatter) == ges_project_remove_formatter(q, formatter)
      save(q) ==
        IF ~extract_ok
        THEN [q EXCEPT !.ret = FALSE]
        ELSE LET formatter == ges_asset_extract(q)
                 r == [ges_project_add_formatter(q, formatter)
                       EXCEPT !.saved = save_ok, !.ret = save_ok]
             IN  out(IF r.uri = NULL
                     THEN ges_project_set_uri(r, to_uri) ELSE r,
                     formatter)
  IN  IF /\ formatter_asset # NoAsset
         /\ ges_asset_get_extractable_type(formatter_asset) # GES_TYPE_FORMATTER
      THEN [p EXCEPT !.ret = FALSE]
      ELSE IF tl_asset = NULL /\ p.uri = NULL
           THEN IF cached
                THEN [p EXCEPT !.ret = TRUE]
                ELSE save([p EXCEPT !.timeline_assets[timeline] = ThisProject])
           ELSE IF tl_asset # ThisProject
                THEN [p EXCEPT !.ret = FALSE]
                ELSE save(p)
ges_project_save(p, timeline, to_uri, formatter_asset, cached, extract_ok, save_ok) ==
  LET tl_asset == p.timeline_assets[timeline]
      \* out: with no formatter ges_project_remove_formatter finds nothing.
      out(q, formatter) == ges_project_remove_formatter(q, formatter)
      save(q) ==
        IF ~extract_ok
        THEN [q EXCEPT !.ret = FALSE]
        ELSE LET formatter == ges_asset_extract(q)
                 r == [ges_project_add_formatter(q, formatter)
                       EXCEPT !.saved = save_ok, !.ret = save_ok]
             IN  out(IF r.ret /\ r.uri = NULL
                     THEN ges_project_set_uri(r, to_uri) ELSE r,
                     formatter)
  IN  IF /\ formatter_asset # NoAsset
         /\ ges_asset_get_extractable_type(formatter_asset) # GES_TYPE_FORMATTER
      THEN [p EXCEPT !.ret = FALSE]
      ELSE IF tl_asset = NULL /\ p.uri = NULL
           THEN IF cached
                THEN [p EXCEPT !.ret = TRUE]
                ELSE save([p EXCEPT !.timeline_assets[timeline] = ThisProject])
           ELSE IF tl_asset # ThisProject
                THEN [p EXCEPT !.ret = FALSE]
                ELSE save(p)

\* The GCancellable: connected handlers are run once, when it is cancelled; a
\* handler connected to a cancelled one is run at once and not connected.
MaxConnects == 2
NoCancellable == [connected |-> 0, cancelled |-> FALSE, torn_down |-> FALSE]

project_start_proxies_cancalled_cb(p, is_element) ==
  IF ~GST_IS_ELEMENT(p, p.proxy_pipeline, is_element)
  THEN [p EXCEPT !.ret = FALSE]
  ELSE [gst_object_unref(
          gst_element_set_state(p, p.proxy_pipeline, "GST_STATE_NULL", TRUE),
          p.proxy_pipeline)
        EXCEPT !.emitted = Append(@, Signal("proxies-creation-cancelled")),
               !.cancellable.torn_down = TRUE,
               !.ret = TRUE]

g_cancellable_connect(p, is_element) ==
  IF p.cancellable.cancelled
  THEN project_start_proxies_cancalled_cb(p, is_element)
  ELSE [p EXCEPT !.cancellable.connected = @ + 1,
                 !.over = @ \/ p.cancellable.connected >= MaxConnects]

\* The handlers from the n-th on are run.
RECURSIVE RunHandlers(_, _, _)
RunHandlers(p, n, is_element) ==
  IF n > p.cancellable.connected
  THEN p
  ELSE RunHandlers(project_start_proxies_cancalled_cb(p, is_element), n + 1,
                   is_element)

g_cancellable_cancel(p, is_element) ==
  IF p.cancellable.cancelled
  THEN p
  ELSE RunHandlers([p EXCEPT !.cancellable.cancelled = TRUE], 1, is_element)

\* is_element, state_ok, order: as above.  with_cancellable: whether the
\* caller passes the GCancellable; g_cancellable_disconnect with the handler
\* id 0 disconnects nothing.
ges_project_start_proxy_creation(p0, asset, with_cancellable, is_element, state_ok, order) ==
  LET p == IF with_cancellable THEN g_cancellable_connect(p0, is_element)
           ELSE p0
  IN  IF GST_IS_ELEMENT(p, p.proxy_pipeline, is_element)
      THEN [gst_element_set_state(p, p.proxy_pipeline, "GST_STATE_PLAYING",
                                  state_ok)
            EXCEPT !.ret = state_ok]
      ELSE IF asset # NoAsset
      THEN IF ~GES_IS_URI_CLIP_ASSET(asset)
              \/ ges_project_get_proxy_profile(p, asset) = NULL
           THEN [p EXCEPT !.ret = FALSE]
           ELSE [_transcode(p, asset, state_ok) EXCEPT !.ret = TRUE]
      ELSE IF ges_project_get_loading_assets(p) = {}
              /\ p.proxies_creation_started = FALSE
           THEN _create_proxies(p, order)
           ELSE [p EXCEPT !.ret = TRUE]

\* The formatter and its timeline are not modelled.
ges_project_set_loaded(p, order) ==
  LET q == [p EXCEPT !.emitted = Append(@, Signal("loaded"))]
  IN  IF q.proxies_created = FALSE
      THEN [_create_proxies(q, order) EXCEPT !.ret = TRUE]
      ELSE [q EXCEPT !.ret = TRUE]

\* gst_element_set_state fails for what is no element.
Mutant_pause_frees_list(p, is_element, state_ok) ==
  IF ~GST_IS_ELEMENT(p, p.proxy_pipeline, is_element) \/ ~state_ok
  THEN [p EXCEPT !.ret = FALSE]
  ELSE [gst_element_set_state(p, p.proxy_pipeline, "GST_STATE_PAUSED", TRUE)
        EXCEPT !.emitted = Append(@, Signal("proxies-creation-paused")),
               !.create_proxies = [at |-> 0, list |-> <<>>],
               !.ret = TRUE]
ges_project_pause_proxy_creation(p, is_element, state_ok) ==
  IF ~GST_IS_ELEMENT(p, p.proxy_pipeline, is_element) \/ ~state_ok
  THEN [p EXCEPT !.ret = FALSE]
  ELSE [gst_element_set_state(p, p.proxy_pipeline, "GST_STATE_PAUSED", TRUE)
        EXCEPT !.emitted = Append(@, Signal("proxies-creation-paused")),
               !.ret = TRUE]

----------------------------------------------------------------------------
(* The state machine *)

NoUpdate == [ok |-> FALSE, new_id |-> NULL]
Updates == {NoUpdate} \cup {[ok |-> TRUE, new_id |-> n] : n \in Ids \cup {NULL}}
Answers == Ids \cup {NULL, BadUri}
AnswerLists == UNION {[1..n -> Answers] : n \in 0..MaxObservers}

\* What the last step did: the call, its arguments, what it returned, the
\* signals it emitted, the requests it issued and the files it renamed, in
\* order; for a callback
\* also the outcome of the request and of the relocation; for a start whether
\* it found the pipeline of the project paused; for
\* ges_project_use_proxies_for_timeline the timeline (as id) and use_proxies;
\* for ges_project_save the URI (as id) and whether the formatter saved.
Call(op, id, type) ==
  [op |-> op, id |-> id, type |-> type, message |-> NULL,
   ret |-> FALSE, result |-> NoAsset,
   emitted |-> <<>>, issued |-> <<>>, error |-> NULL, update |-> NoUpdate,
   mu |-> NoMissingUri, new_id |-> NULL, proxy_ok |-> FALSE,
   profile |-> NULL, paused |-> FALSE, use_proxies |-> FALSE,
   renamed |-> <<>>, committed |-> <<>>,
   saved |-> FALSE, timeline |-> NULL, cached |-> FALSE,
   extract_ok |-> FALSE, formatter_asset |-> NoAsset]

Done(call, q) ==
  [call EXCEPT !.ret = q.ret, !.emitted = q.emitted, !.issued = q.issued,
               !.renamed = q.renamed, !.saved = q.saved,
               !.committed = q.committed]

Commit(q) ==
  /\ assets' = q.assets
  /\ loading_assets' = q.loading_assets
  /\ loaded_with_error' = q.loaded_with_error
  /\ requests' = q.requests
  /\ proxy_profile' = q.proxy_profile
  /\ proxied_assets' = q.proxied_assets
  /\ proxies' = q.proxies
  /\ create_proxies' = q.create_proxies
  /\ proxy_parent' = q.proxy_parent
  /\ proxy_asset' = q.proxy_asset
  /\ proxy_uri' = q.proxy_uri
  /\ proxy_pipeline' = q.proxy_pipeline
  /\ pipelines' = q.pipelines
  /\ proxies_creation_started' = q.proxies_creation_started
  /\ proxies_created' = q.proxies_created
  /\ cancellable' = q.cancellable
  /\ timeline_proxies' = q.timeline_proxies
  /\ timelines' = q.timelines
  /\ priv_uri' = q.uri
  /\ formatters' = q.formatters
  /\ timeline_assets' = q.timeline_assets

\* The timelines of the clients and the assets their clips were made from.
Timelines == {"timeline-1", "timeline-2"}
Clips ==
  [timeline \in Timelines |->
     IF timeline = "timeline-1"
     THEN <<Asset("file:///a.mov", "GESUriClip"), Asset("file:///b.mov", "GESUriClip")>>
     ELSE <<Asset("file:///a.mov", "GESUriClip")>>]

\* ges_project_init; the private structure is allocated zeroed.
Zeroed ==
  /\ assets = EmptyTable
  /\ loading_assets = EmptyTable
  /\ loaded_with_error = {}
  /\ requests = EmptyBag
  /\ proxy_profile = NULL
  /\ proxied_assets = EmptyTable
  /\ proxies = EmptyTable
  /\ create_proxies = NoList
  /\ proxy_parent = NoAsset
  /\ proxy_asset = NoAsset
  /\ proxy_uri = NULL
  /\ proxy_pipeline = NoPipeline
  /\ pipelines = EmptyTable
  /\ proxies_creation_started = FALSE
  /\ proxies_created = FALSE
  /\ cancellable = NoCancellable
  /\ timeline_proxies = <<>>
  /\ timelines = Clips
  /\ formatters = <<>>

\* ges_project_new (NULL), and timelines the clients made themselves.
Constructed ==
  /\ Zeroed
  /\ priv_uri = NULL
  /\ timeline_assets = [timeline \in Timelines |-> NULL]

Init == Constructed /\ last = Call("init", NULL, NULL)

\* miss: ges_asset_cache_lookup finds no asset for the type and identifier.
CreateAssetOf(ids) ==
  \E id \in ids, type \in Types, miss \in BOOLEAN :
    LET q == ges_project_create_asset(Priv, id, type, ~miss)
    IN  /\ q.issued # <<>> => BagCardinality(requests) < MaxRequests
        /\ q.issued = <<>> => ~miss
        /\ Commit(q)
        /\ last' = Done(Call("create", id, type), q)

CreateAsset == CreateAssetOf(Ids)

AddAssetOf(handles) ==
  \E asset \in handles :
    LET q == ges_project_add_asset(Priv, asset)
    IN  /\ Commit(q)
        /\ last' = Done(Call("add", asset.id, asset.type), q)

AddAsset == AddAssetOf(Handles)

RemoveAssetOf(handles) ==
  \E asset \in handles :
    LET q == ges_project_remove_asset(Priv, asset)
    IN  /\ Commit(q)
        /\ last' = Done(Call("remove", asset.id, asset.type), q)

RemoveAsset == RemoveAssetOf(Handles)

GetAsset ==
  \E id \in Ids, type \in Types \cup {GES_TYPE_EXTRACTABLE} :
    /\ g_type_is_a(type, GES_TYPE_EXTRACTABLE)
    /\ UNCHANGED <<registry, generation, binding, saving>>
    /\ last' = [Call("get", id, type) EXCEPT
                  !.result = ges_project_get_asset(Priv, id, type)]

\* The provider answers a request of ges_project_create_asset with the asset.
AssetLoadedOf(r) ==
    /\ r \in BagToSet(requests)
    /\ r.cb = "new_asset_cb"
    /\ LET p == [Priv EXCEPT !.requests = @ (-) SetToBag({r})]
           source == Asset(r.id, r.type)
           u == new_asset_cb(p, source, [asset |-> source, error |-> NULL],
                             NoUpdate, <<>>, FALSE, FALSE)
       IN  /\ Commit(u.p)
           /\ last' = Done(Call("new_asset_cb", r.id, r.type), u.p)

AssetLoaded == \E r \in BagToSet(requests) : AssetLoadedOf(r)

\* The provider answers a request of ges_project_create_asset with an error.
\* Inputs the callback does not read in the case at hand are not enumerated.
AssetFailedOf(r, updates) ==
  \E error \in Errors, update \in updates :
    /\ r \in BagToSet(requests)
    /\ r.cb = "new_asset_cb"
    /\ \E answers \in (IF update.ok /\ update.new_id = NULL
                       THEN AnswerLists ELSE {<<>>}) :
         LET found == IF ~update.ok THEN NULL
                      ELSE IF update.new_id = NULL
                           THEN EmitMissingUri(answers).result
                           ELSE update.new_id
         IN  \E proxy_ok \in (IF found = NULL THEN {FALSE} ELSE BOOLEAN) :
               LET p == [Priv EXCEPT !.requests = @ (-) SetToBag({r})]
                   source == Asset(r.id, r.type)
                   res == [asset |-> NoAsset, error |-> error]
                   issues == new_asset_cb(p, source, res, update, answers,
                                          proxy_ok, FALSE).p.issued # <<>>
               IN  \E miss \in (IF issues THEN BOOLEAN ELSE {FALSE}) :
                     LET u == new_asset_cb(p, source, res, update, answers,
                                           proxy_ok, ~miss)
                     IN  /\ Commit(u.p)
                         /\ last' = [Done(Call("new_asset_cb", r.id, r.type), u.p)
                                      EXCEPT !.error = error, !.update = update,
                                             !.mu = u.mu, !.new_id = u.new_id,
                                             !.proxy_ok = proxy_ok]

AssetFailedWith(updates) ==
  \E r \in BagToSet(requests) : AssetFailedOf(r, updates)

AssetFailed == AssetFailedWith(Updates)

Next ==
  \/ CreateAsset
  \/ AddAsset
  \/ RemoveAsset
  \/ GetAsset
  \/ AssetLoaded
  \/ AssetFailed

Spec == Init /\ [][Next]_vars

\* The project with proxy generation.  Its clients create the assets of
\* Sources and ask for their proxies, they add and remove these and a
\* timeline asset, and an asset whose request failed declines to be relocated.

Sources == {"file:///a.mov"}
SourceHandles == {Asset(id, t) : id \in Sources, t \in Types}
ProxyHandles == SourceHandles \cup {Asset("file:///b.mov", "GESTimeline")}

Within(q) ==
  /\ ~q.aborted
  /\ ~q.over
  /\ BagCardinality(q.requests) <= MaxRequests

SetProxyProfileOf(profiles, handles) ==
  \E profile \in profiles, asset \in handles :
    LET q == ges_project_set_proxy_profile(Priv, profile, asset)
    IN  /\ Commit(q)
        /\ last' = [Done(Call("set_proxy_profile", asset.id, asset.type), q)
                     EXCEPT !.profile = profile]

SetProxyProfile ==
  SetProxyProfileOf({"proxy-profile"}, SourceHandles \cup {NoAsset})

\* Inputs the call does not read in the case at hand are not enumerated.
\* The pipeline of the project is alive and paused.
IsPaused(p) ==
  /\ p.proxy_pipeline \in DOMAIN p.pipelines
  /\ p.pipelines[p.proxy_pipeline].state = "GST_STATE_PAUSED"

StartProxyCreationOf(handles, cancellables, engines) ==
  \E asset \in handles, with_cancellable \in cancellables :
    \E is_element \in (IF /\ proxy_pipeline # NoPipeline
                           /\ \/ proxy_pipeline \notin DOMAIN pipelines
                              \/ with_cancellable /\ cancellable.cancelled
                        THEN BOOLEAN ELSE {FALSE}) :
      LET p == IF with_cancellable
               THEN g_cancellable_connect(Priv, is_element) ELSE Priv
          resumes == GST_IS_ELEMENT(p, proxy_pipeline, is_element)
          transcodes == ~resumes /\ asset # NoAsset
          lists == ~resumes /\ asset = NoAsset
      IN  \E state_ok \in (IF resumes \/ transcodes THEN BOOLEAN ELSE {FALSE}),
             order \in (IF lists THEN Orders(assets) ELSE {<<>>}) :
            LET q == ges_project_start_proxy_creation(Priv, asset,
                       with_cancellable, is_element, state_ok, order)
            IN  /\ Within(q)
                /\ Cardinality(DOMAIN q.pipelines) <= engines
                /\ Commit(q)
                /\ last' = [Done(Call("start_proxy_creation", asset.id,
                                      asset.type), q)
                            EXCEPT !.paused = IsPaused(Priv)]

StartProxyCreation ==
  StartProxyCreationOf(SourceHandles \cup {NoAsset}, {FALSE}, MaxPipelines)

\* The provider answers a request of _create_proxy_asset with the asset.
ProxyAssetLoadedAs(r) ==
    /\ r \in BagToSet(requests)
    /\ r.cb = "new_proxy_asset_cb"
    /\ LET p == [Priv EXCEPT !.requests = @ (-) SetToBag({r})]
           source == Asset(r.id, r.type)
           q == new_proxy_asset_cb(p, source, [asset |-> source, error |-> NULL],
                                   FALSE)
       IN  /\ Within(q)
           /\ Commit(q)
           /\ last' = Done(Call("new_proxy_asset_cb", r.id, r.type), q)

ProxyAssetLoaded == \E r \in BagToSet(requests) : ProxyAssetLoadedAs(r)

\* The provider answers a request of _create_proxy_asset with an error.
ProxyAssetFailedAs(r, engines) ==
  \E error \in Errors, state_ok \in BOOLEAN :
    /\ r \in BagToSet(requests)
    /\ r.cb = "new_proxy_asset_cb"
    /\ LET p == [Priv EXCEPT !.requests = @ (-) SetToBag({r})]
           source == Asset(r.id, r.type)
           q == new_proxy_asset_cb(p, source, [asset |-> NoAsset, error |-> error],
                                   state_ok)
       IN  /\ Within(q)
           /\ Cardinality(DOMAIN q.pipelines) <= engines
           /\ Commit(q)
           /\ last' = [Done(Call("new_proxy_asset_cb", r.id, r.type), q)
                        EXCEPT !.error = error]

ProxyAssetFailedOf(engines) ==
  \E r \in BagToSet(requests) : ProxyAssetFailedAs(r, engines)

ProxyAssetFailed == ProxyAssetFailedOf(MaxPipelines)

\* The bus of a pipeline posts an error, or the end of the stream it played;
\* nothing follows the end of the stream.
BusMessageOf(sender) ==
  \E type \in {"GST_MESSAGE_ERROR", "GST_MESSAGE_EOS"} :
    /\ sender \in DOMAIN pipelines
    /\ pipelines[sender].bus
    /\ type = "GST_MESSAGE_EOS" => pipelines[sender].state = "GST_STATE_PLAYING"
    /\ LET p == IF type = "GST_MESSAGE_EOS"
                THEN [Priv EXCEPT !.pipelines[sender].bus = FALSE]
                ELSE Priv
           q == bus_message_cb(p, sender, type)
       IN  /\ Within(q)
           /\ Commit(q)
           /\ last' = [Done(Call("bus_message_cb", NULL, NULL), q)
                        EXCEPT !.message = type]

BusMessage == \E sender \in DOMAIN pipelines : BusMessageOf(sender)

\* The formatter reports the project as loaded.
SetLoaded ==
  \E order \in (IF ~proxies_created /\ GST_IS_ENCODING_PROFILE(proxy_profile)
                 THEN Orders(assets) ELSE {<<>>}) :
    LET q == ges_project_set_loaded(Priv, order)
    IN  /\ Within(q)
        /\ Commit(q)
        /\ last' = Done(Call("set_loaded", NULL, NULL), q)

PauseProxyCreation ==
  \E is_element \in (IF proxy_pipeline # NoPipeline
                         /\ proxy_pipeline \notin DOMAIN pipelines
                      THEN BOOLEAN ELSE {FALSE}) :
    \E state_ok \in (IF GST_IS_ELEMENT(Priv, proxy_pipeline, is_element)
                     THEN BOOLEAN ELSE {FALSE}) :
      LET q == ges_project_pause_proxy_creation(Priv, is_element, state_ok)
      IN  /\ Commit(q)
          /\ last' = Done(Call("pause_proxy_creation", NULL, NULL), q)

\* A client cancels the GCancellable.
Cancel ==
  /\ ~cancellable.cancelled
  /\ \E is_element \in (IF /\ proxy_pipeline # NoPipeline
                            /\ cancellable.connected > 0
                            /\ \/ proxy_pipeline \notin DOMAIN pipelines
                               \/ cancellable.connected > 1
                         THEN BOOLEAN ELSE {FALSE}) :
       LET q == g_cancellable_cancel(Priv, is_element)
       IN  /\ Commit(q)
           /\ last' = Done(Call("g_cancellable_cancel", NULL, NULL), q)

ProxyNext ==
  \/ CreateAssetOf(Sources)
  \/ AddAssetOf(ProxyHandles)
  \/ RemoveAssetOf(ProxyHandles)
  \/ AssetLoaded
  \/ AssetFailedWith({NoUpdate})
  \/ SetProxyProfile
  \/ StartProxyCreation
  \/ ProxyAssetLoaded
  \/ ProxyAssetFailed
  \/ BusMessage

ProxySpec == Init /\ [][ProxyNext]_vars

\* The project with all that starts, suspends and ends the automatic
\* generation, for one source.
Source == Asset("file:///a.mov", "GESUriClip")
RunNext ==
  \/ AddAssetOf({Source})
  \/ CreateAssetOf(Sources)
  \/ AssetLoaded
  \/ AssetFailedWith({NoUpdate})
  \/ SetProxyProfileOf({"proxy-profile"}, {NoAsset})
  \/ StartProxyCreationOf({NoAsset}, BOOLEAN, MaxEngines)
  \/ SetLoaded
  \/ PauseProxyCreation
  \/ Cancel
  \/ ProxyAssetLoaded
  \/ ProxyAssetFailedOf(MaxEngines)
  \/ BusMessage

RunSpec == Init /\ [][RunNext]_vars

\* The automatic generation for the URI clips of a registry of two.
RunHandles == {Asset(id, "GESUriClip") : id \in Ids}
QueueNext ==
  \/ AddAssetOf(RunHandles)
  \/ SetProxyProfileOf({"proxy-profile"}, {NoAsset})
  \/ StartProxyCreationOf({NoAsset}, {FALSE}, MaxEngines)
  \/ SetLoaded
  \/ ProxyAssetLoaded
  \/ ProxyAssetFailedOf(MaxEngines)
  \/ BusMessage

QueueSpec == Init /\ [][QueueNext]_vars

\* The automatic generation left to itself once it is started: the provider
\* answers every request and every pipeline posts the end of its stream or an
\* error.
ProxyRequests ==
  {Request("GESUriClip", _get_outuri(Priv, id), "new_proxy_asset_cb") : id \in Ids}
JobsNext ==
  \/ AddAssetOf(RunHandles)
  \/ SetProxyProfileOf({"proxy-profile"}, {NoAsset})
  \/ StartProxyCreationOf({NoAsset}, {FALSE}, MaxEngines)
  \/ ProxyAssetLoaded
  \/ ProxyAssetFailedOf(MaxEngines)
  \/ BusMessage
FairJobsSpec ==
  /\ Init /\ [][JobsNext]_vars
  /\ \A r \in ProxyRequests :
       WF_vars(ProxyAssetLoadedAs(r) \/ ProxyAssetFailedAs(r, MaxEngines))
  /\ \A sender \in Pipelines : WF_vars(BusMessageOf(sender))

\* The provider answers every request.
Requests == {Request(type, id, "new_asset_cb") : type \in Types, id \in Ids}
FairSpec ==
  Spec /\ \A r \in Requests : WF_vars(AssetLoadedOf(r) \/ AssetFailedOf(r, Updates))

----------------------------------------------------------------------------
(* The catalogue alone: the profiles and the proxy map, with any profile   *)
(* and any asset a caller may pass.                                        *)

GetProxyProfile ==
  \E asset \in Handles \cup {NoAsset} :
    /\ UNCHANGED <<registry, generation, binding, saving>>
    /\ last' = [Call("get_proxy_profile", asset.id, asset.type)
                 EXCEPT !.profile = ges_project_get_proxy_profile(Priv, asset)]

AddProxy ==
  \E asset \in Handles :
    LET q == _add_proxy(Priv, asset)
    IN  /\ Commit(q)
        /\ last' = Done(Call("_add_proxy", asset.id, asset.type), q)

UseProxiesForTimeline ==
  \E timeline \in Timelines, use_proxies \in BOOLEAN :
    LET q == ges_project_use_proxies_for_timeline(Priv, timeline, use_proxies)
    IN  /\ Commit(q)
        /\ last' = [Done(Call("use_proxies_for_timeline", timeline, NULL), q)
                    EXCEPT !.use_proxies = use_proxies]

CatalogNext ==
  \/ SetProxyProfileOf(Profiles \cup {NULL}, Handles \cup {NoAsset})
  \/ GetProxyProfile
  \/ AddProxy
  \/ UseProxiesForTimeline

CatalogSpec == Init /\ [][CatalogNext]_vars

\* The generation for two sources, for all sources or for one of them
\* alone, with timelines that use proxies.
BindNext ==
  \/ AddAssetOf(RunHandles)
  \/ SetProxyProfileOf({"proxy-profile"}, {NoAsset, Source})
  \/ StartProxyCreationOf({NoAsset, Source}, {FALSE}, MaxPipelines)
  \/ ProxyAssetLoaded
  \/ ProxyAssetFailedOf(MaxPipelines)
  \/ BusMessage
  \/ UseProxiesForTimeline

BindSpec == Init /\ [][BindNext]_vars

----------------------------------------------------------------------------
(* The project URI: a project made with any URI, loaded and saved.  A      *)
(* formatter saves to no string that is not a URI.                          *)

Uris == {"file:///p.xges", "file:///q.xges", BadUri}
FormatterAssets ==
  {NoAsset, Asset("ges", GES_TYPE_FORMATTER), Asset("file:///a.mov", "GESUriClip")}

\* ges_project_new finds the project in the cache of the assets, under its
\* identifier: its URI once it has one, and the string it was made with till
\* then.
NewProject ==
  \E new_uri \in Uris :
    LET q == ges_project_new(Priv, new_uri)
    IN  /\ new_uri = IF priv_uri # NULL THEN priv_uri ELSE BadUri
        /\ Commit(q)
        /\ last' = Done(Call("new", new_uri, NULL), q)

LoadProject ==
  \E extract_ok \in BOOLEAN, load_ok \in BOOLEAN :
    LET q == _load_project(Priv, extract_ok, load_ok)
    IN  /\ Within(q)
        /\ Commit(q)
        /\ last' = Done(Call("load", NULL, NULL), q)

Save ==
  \E timeline \in Timelines, to_uri \in Uris, formatter_asset \in FormatterAssets,
     cached \in BOOLEAN, extract_ok \in BOOLEAN :
    \E save_ok \in (IF gst_uri_is_valid(to_uri) THEN BOOLEAN ELSE {FALSE}) :
      LET q == ges_project_save(Priv, timeline, to_uri, formatter_asset,
                                cached, extract_ok, save_ok)
      IN  /\ Commit(q)
          /\ last' = [Done(Call("save", to_uri, NULL), q)
                      EXCEPT !.timeline = timeline, !.cached = cached,
                             !.extract_ok = extract_ok,
                             !.formatter_asset = formatter_asset]

SaveInit ==
  /\ Zeroed
  /\ \E new_uri \in Uris \cup {NULL} :
       /\ priv_uri = ges_project_new([uri |-> NULL], new_uri).uri
       /\ last = Call("new", new_uri, NULL)
  /\ timeline_assets \in [Timelines -> {NULL, ThisProject, OtherProject}]

SaveNext == NewProject \/ LoadProject \/ Save

SaveSpec == SaveInit /\ [][SaveNext]_vars

\* The generation for a source whose identifier holds the text ".part" and
\* for one whose identifier does not.
PartSource == Asset("file:///a.part.mov", "GESUriClip")
NameNext ==
  \/ AddAssetOf({Source, PartSource})
  \/ SetProxyProfileOf({"proxy-profile"}, {NoAsset})
  \/ StartProxyCreationOf({NoAsset}, BOOLEAN, MaxPipelines)
  \/ ProxyAssetLoaded
  \/ ProxyAssetFailedOf(MaxPipelines)
  \/ BusMessage
  \/ Cancel

NameSpec == Init /\ [][NameNext]_vars

\* The automatic generation for one source with all that suspends, ends and
\* observes it, beside a request of the registry that is pending or fails.
FrameNext ==
  \/ AddAssetOf({Source})
  \/ CreateAssetOf({"file:///b.mov"})
  \/ AssetFailedWith({NoUpdate})
  \/ SetProxyProfileOf({"proxy-profile"}, {NoAsset})
  \/ StartProxyCreationOf({NoAsset}, BOOLEAN, MaxPipelines)
  \/ ProxyAssetLoaded
  \/ ProxyAssetFailedOf(MaxPipelines)
  \/ BusMessage
  \/ PauseProxyCreation
  \/ Cancel
  \/ UseProxiesForTimeline

FrameSpec == Init /\ [][FrameNext]_vars

----------------------------------------------------------------------------
(* What the claims speak of *)

Loaded(id) == g_hash_table_contains(assets, id)
Loading(id) == g_hash_table_contains(loading_assets, id)
Failed(id) == id \in loaded_with_error
Known(id) == Loaded(id) \/ Loading(id) \/ Failed(id)

\* The provider requests outstanding for an identifier.
Outstanding(id) ==
  BagCardinality([r \in {x \in BagToSet(requests) : x.id = id} |-> requests[r]])

\* The signals of one kind a step emitted.
Emissions(l, sig) == {i \in 1..Len(l.emitted) : l.emitted[i].sig = sig}

\* A callback whose request failed and that found a replacement identifier,
\* and one that found none.
Relocated(l) == l.op = "new_asset_cb" /\ l.error # NULL /\ l.new_id # NULL
NotRelocated(l) == l.op = "new_asset_cb" /\ l.error # NULL /\ l.new_id = NULL

\* C1: in every reachable state no identifier is in more than one of the
\* Loading set, the Loaded map and the Failed set.
C1_Exclusive ==
  \A id \in Ids :
    /\ ~(Loading(id) /\ Loaded(id))
    /\ ~(Loading(id) /\ Failed(id))
    /\ ~(Loaded(id) /\ Failed(id))

\* C2: in every reachable state at most one provider request is outstanding
\* for each identifier.
C2_OneRequestPerId == \A id \in Ids : Outstanding(id) <= 1

\* C3: a create for an identifier that is Loaded, Loading or Failed returns
\* false, issues no request and leaves the three sets unchanged; a create for
\* an identifier in none of them returns true, issues exactly one request,
\* for that identifier and type, and puts the identifier in the Loading set.
C3_Create ==
  [][last'.op = "create" =>
       IF Known(last'.id)
       THEN /\ last'.ret = FALSE
            /\ last'.issued = <<>>
            /\ UNCHANGED <<assets, loading_assets, loaded_with_error>>
       ELSE /\ last'.ret = TRUE
            /\ last'.issued = <<Request(last'.type, last'.id, "new_asset_cb")>>
            /\ g_hash_table_contains(loading_assets', last'.id)]_vars

\* C4: an add of a handle whose identifier is not Loaded puts the handle in
\* the Loaded map under its identifier, takes the identifier out of the
\* Loading set and emits exactly one signal, asset-added with the handle; an
\* add for an identifier that is Loaded returns false, emits nothing and
\* leaves the Loaded map and the Loading set unchanged.
C4_Add ==
  [][last'.op = "add" =>
       LET asset == Asset(last'.id, last'.type)
       IN  IF ~Loaded(asset.id)
           THEN /\ assets' = g_hash_table_insert(assets, asset.id, asset)
                /\ loading_assets' = g_hash_table_remove(loading_assets, asset.id)
                /\ last'.emitted = <<AssetAdded(asset)>>
           ELSE /\ last'.ret = FALSE
                /\ last'.emitted = <<>>
                /\ UNCHANGED <<assets, loading_assets>>]_vars

\* An add took an identifier out of the Loading set while its request is
\* still outstanding.
C4_Witness ==
  /\ last.op = "add" /\ last.ret
  /\ last.emitted = <<AssetAdded(Asset(last.id, last.type))>>
  /\ Loaded(last.id) /\ ~Loading(last.id) /\ Outstanding(last.id) > 0

\* C5: a remove emits exactly one signal, asset-removed with the handle,
\* whether or not the identifier was Loaded, returns true exactly when the
\* identifier was Loaded, deletes the Loaded entry of that identifier and no
\* other, and leaves the Loading set, the Failed set and the proxy map
\* unchanged.
C5_Remove ==
  [][last'.op = "remove" =>
       LET asset == Asset(last'.id, last'.type)
       IN  /\ last'.emitted = <<AssetRemoved(asset)>>
           /\ last'.ret = Loaded(asset.id)
           /\ assets' = g_hash_table_remove(assets, asset.id)
           /\ UNCHANGED <<loading_assets, loaded_with_error, proxies>>]_vars

\* A remove of a Loaded identifier that has a proxy, while another identifier
\* is Loaded and one is Failed.
C5_Witness ==
  /\ last.op = "remove" /\ last.ret
  /\ last.emitted = <<AssetRemoved(Asset(last.id, last.type))>>
  /\ g_hash_table_contains(proxies, _get_outuri(Priv, last.id))
  /\ assets # EmptyTable
  /\ loaded_with_error # {}

\* C6: a get returns the Loaded handle of the identifier only if the type of
\* that handle is the requested type or a subtype of it, returns not-found
\* for an identifier that is Loaded with another type, Loading, Failed or
\* unknown, and changes no state.
C6_Get ==
  [][last'.op = "get" =>
       /\ UNCHANGED <<registry, generation>>
       /\ last'.result =
            IF Loaded(last'.id) /\ g_type_is_a(assets[last'.id].type, last'.type)
            THEN assets[last'.id]
            ELSE NoAsset]_vars

C8_Failure ==
  [][/\ NotRelocated(last') =>
          /\ ~g_hash_table_contains(loading_assets', last'.id)
          /\ last'.id \in loaded_with_error'
          /\ last'.emitted =
               <<ErrorLoadingAsset(last'.error, last'.id, last'.type)>>
          /\ last'.issued = <<>>
     /\ \A id \in loaded_with_error :
          /\ id \in loaded_with_error'
          /\ \A i \in 1..Len(last'.issued) : last'.issued[i].id # id
          /\ (last'.op = "create" /\ last'.id = id) => last'.ret = FALSE]_vars

\* A handler of missing-uri answered a valid identifier, the asset refused
\* to be its proxy, and the identifier of the request is Failed.
C8_Witness ==
  /\ NotRelocated(last) /\ last.update.ok
  /\ last.mu.sent /\ last.mu.result # NULL /\ ~last.proxy_ok
  /\ Failed(last.id) /\ ~Loading(last.id)

\* C10: when the provider answers every request, every create that was
\* accepted is followed by an asset-added or an error-loading-asset signal,
\* or by a relocation that issues the request that carries it on.
C10_CreateEndsWithSignal ==
  \A id \in Ids :
    (last.op = "create" /\ last.id = id /\ last.ret)
      ~> \/ Emissions(last, "asset-added") # {}
         \/ Emissions(last, "error-loading-asset") # {}
         \/ last.op = "new_asset_cb" /\ last.issued # <<>>

----------------------------------------------------------------------------
(* The emission of missing-uri alone: any list of connected handlers, each *)
(* with the answer it gives if it is run, and one emission.                *)

HandlerLists == UNION {[1..n -> Answers] : n \in 0..MaxHandlers}

AccuInit ==
  /\ Constructed
  /\ \E answers \in HandlerLists :
       last = [Call("connect", NULL, NULL) EXCEPT
                 !.mu = [NoMissingUri EXCEPT !.answers = answers]]

AccuEmit ==
  /\ last.op = "connect"
  /\ last' = [Call("missing-uri", NULL, NULL) EXCEPT
                !.mu = EmitMissingUri(last.mu.answers)]
  /\ UNCHANGED <<registry, generation, binding, saving>>

AccuSpec == AccuInit /\ [][AccuEmit]_vars

\* The handlers whose answer is a valid identifier.
ValidAnswers(answers) ==
  {i \in 1..Len(answers) : answers[i] # NULL /\ gst_uri_is_valid(answers[i])}
First(S) == CHOOSE i \in S : \A j \in S : i <= j

\* C9: an emission of missing-uri runs the handlers in order up to the first
\* one that answers a valid identifier, and its result is that answer; when
\* no handler answers a valid identifier all are run and the result is none.
C9_FirstValidAnswer ==
  last.mu.sent =>
    LET valid == ValidAnswers(last.mu.answers)
    IN  IF valid = {}
        THEN last.mu.result = NULL /\ last.mu.invoked = Len(last.mu.answers)
        ELSE /\ last.mu.result = last.mu.answers[First(valid)]
             /\ last.mu.invoked = First(valid)

\* An emission in which the first handler answered no valid identifier, the
\* second did and a third, with another valid answer, was not run.
C9_Witness ==
  /\ last.mu.sent /\ Len(last.mu.answers) = 3
  /\ last.mu.answers[1] = BadUri
  /\ gst_uri_is_valid(last.mu.answers[3])
  /\ last.mu.answers[3] # last.mu.answers[2]
  /\ last.mu.invoked = 2 /\ last.mu.result = last.mu.answers[2]

----------------------------------------------------------------------------
(* The catalogue *)

\* C11: with a project-wide profile set and a profile set for some asset,
\* ges_project_get_proxy_profile returns for a URI clip asset the profile set
\* for it, for a URI clip asset with none the project-wide profile, and
\* without an asset the project-wide profile.
C11_ProfilePrecedence ==
  [][(/\ last'.op = "get_proxy_profile"
      /\ proxy_profile # NULL
      /\ proxied_assets # EmptyTable
      /\ last'.type \in {NULL, "GESUriClip"})
       => last'.profile =
            IF g_hash_table_contains(proxied_assets, last'.id)
            THEN proxied_assets[last'.id]
            ELSE proxy_profile]_vars

\* C13: _add_proxy inserts the asset under its id and returns TRUE when the id
\* has no entry; when it has one it returns FALSE and leaves the map as it is;
\* a second call with the same asset changes nothing.
C13_AddProxy ==
  [][last'.op = "_add_proxy" =>
       LET asset == Asset(last'.id, last'.type)
           again == _add_proxy(_add_proxy(Priv, asset), asset)
       IN  /\ last'.ret = ~g_hash_table_contains(proxies, asset.id)
           /\ proxies' = IF g_hash_table_contains(proxies, asset.id)
                         THEN proxies
                         ELSE g_hash_table_insert(proxies, asset.id, asset)
           /\ again.proxies = proxies' /\ ~again.ret
           /\ UNCHANGED <<registry, proxy_profile, proxied_assets>>]_vars

\* A second asset with the id of a recorded proxy was passed; the first stays.
C13_Witness ==
  /\ last.op = "_add_proxy" /\ ~last.ret
  /\ g_hash_table_contains(proxies, last.id)
  /\ proxies[last.id].type # last.type

----------------------------------------------------------------------------
(* The generation *)

Engines(t) == {pl \in DOMAIN t : t[pl].state \in {"GST_STATE_PLAYING", "GST_STATE_PAUSED"}}

\* C12: a pipeline made for an asset that has a profile of its own is given
\* that profile.
C12_EngineProfile ==
  [][\A pl \in DOMAIN pipelines' \ DOMAIN pipelines :
       g_hash_table_contains(proxied_assets, pipelines'[pl].uri)
         => pipelines'[pl].profile = proxied_assets[pipelines'[pl].uri]]_vars

\* C14: a start or a load completion that emits proxies-creation-started,
\* builds the job list or issues the request of a job finds no asset loading.
C14_NoRunWhileLoading ==
  [][(/\ last'.op \in {"start_proxy_creation", "set_loaded"}
      /\ \/ Emissions(last', "proxies-creation-started") # {}
         \/ create_proxies' # create_proxies
         \/ last'.issued # <<>>)
       => loading_assets = EmptyTable]_vars

\* C15: ges_project_start_proxy_creation without an asset, while an asset is
\* loading, returns FALSE, emits nothing and changes nothing.
C15_StartWhileLoading ==
  [][(/\ last'.op = "start_proxy_creation"
      /\ last'.id = NULL
      /\ loading_assets # EmptyTable)
       => /\ ~last'.ret
          /\ last'.emitted = <<>>
          /\ UNCHANGED <<registry, generation>>]_vars

Jobs(l) == {l.list[i] : i \in 1..Len(l.list)}

\* C16: once the generation has started the assets of its job list stay those
\* it was built from.
C16_ListBuiltOnce ==
  [][proxies_creation_started
       => Jobs(create_proxies') = Jobs(create_proxies)]_vars

\* C17: at most one pipeline is playing or paused.
C17_OneEngine == Cardinality(Engines(pipelines)) <= 1

\* The step takes up a job: the first of a list just built, or the next after
\* a proxy was loaded.
TakesJob ==
  \/ /\ last'.op = "start_proxy_creation"
     /\ Emissions(last', "proxies-creation-started") # {}
     /\ create_proxies'.at # 0
  \/ /\ last'.op = "set_loaded"
     /\ ~proxies_created /\ GST_IS_ENCODING_PROFILE(proxy_profile)
     /\ create_proxies'.at # 0
  \/ /\ last'.op = "new_proxy_asset_cb" /\ last'.error = NULL
     /\ create_proxies.at > 1

\* C19: when the job taken up has its proxy in the proxy map no pipeline is
\* made for it, and the step goes on: it issues the request of the next job or
\* emits proxies-created.
C19_Skip ==
  [][(/\ TakesJob
      /\ g_hash_table_contains(
            proxies', _get_outuri(Priv, g_list_data(create_proxies').id)))
       => /\ DOMAIN pipelines' \subseteq DOMAIN pipelines
          /\ \/ last'.issued # <<>>
             \/ Emissions(last', "proxies-created") # {}]_vars

\* C20: a cancellation with a handler connected, while the pipeline of the
\* generation is playing or paused, frees that pipeline and emits
\* proxies-creation-cancelled; after a cancellation has torn the generation
\* down no request of a job is issued, no pipeline is made and proxies-created
\* is not emitted.
C20_Cancel ==
  [][/\ (/\ last'.op = "g_cancellable_cancel"
          /\ cancellable.connected > 0
          /\ proxy_pipeline \in Engines(pipelines))
         => /\ proxy_pipeline \notin DOMAIN pipelines'
            /\ Emissions(last', "proxies-creation-cancelled") # {}
     /\ cancellable.torn_down
         => /\ \A i \in 1..Len(last'.issued) :
                 last'.issued[i].cb # "new_proxy_asset_cb"
            /\ DOMAIN pipelines' \subseteq DOMAIN pipelines
            /\ Emissions(last', "proxies-created") = {}]_vars

\* C18: a generation started with a job list, no proxy recorded yet, comes to
\* proxies-created.
C18_RunCompletes ==
  (/\ last.op = "start_proxy_creation"
   /\ Emissions(last, "proxies-creation-started") # {}
   /\ create_proxies.at # 0
   /\ proxies = EmptyTable)
    ~> proxies_created

----------------------------------------------------------------------------
(* Control of the generation *)

\* What the project holds of the generation; the GCancellable is the clients'.
queue ==
  <<proxy_profile, proxied_assets, proxies, create_proxies, proxy_parent,
    proxy_asset, proxy_uri, proxy_pipeline, pipelines,
    proxies_creation_started, proxies_created>>

\* C21: a cancellation before the generation has started or after
\* proxies-created emits no proxies-creation-cancelled and changes nothing of
\* the project.
C21_CancelIdle ==
  [][(/\ last'.op = "g_cancellable_cancel"
      /\ ~proxies_creation_started \/ proxies_created)
       => /\ Emissions(last', "proxies-creation-cancelled") = {}
          /\ UNCHANGED <<registry, queue>>]_vars

\* The calls that drive the generation from outside.
Controls ==
  {"start_proxy_creation", "pause_proxy_creation", "g_cancellable_cancel",
   "set_loaded"}

\* C22: once proxies-created has been emitted, no start, pause, cancellation
\* or set_loaded makes a pipeline or emits proxies-creation-started or
\* proxies-created again.
C22_CompletedIsTerminal ==
  [][(proxies_created /\ last'.op \in Controls)
       => /\ DOMAIN pipelines' \subseteq DOMAIN pipelines
          /\ Emissions(last', "proxies-creation-started") = {}
          /\ Emissions(last', "proxies-created") = {}]_vars

\* C23: with no pipeline alive, ges_project_pause_proxy_creation returns
\* FALSE, emits no proxies-creation-paused and changes nothing, and
\* ges_project_start_proxy_creation without an asset, after the generation has
\* started, returns TRUE, emits nothing and changes nothing.
C23_NoEngine ==
  [][(DOMAIN pipelines = {})
       => /\ last'.op = "pause_proxy_creation"
               => /\ last'.ret = FALSE
                  /\ Emissions(last', "proxies-creation-paused") = {}
                  /\ UNCHANGED <<registry, queue>>
          /\ (/\ last'.op = "start_proxy_creation"
              /\ last'.id = NULL
              /\ proxies_creation_started)
               => /\ last'.ret = TRUE
                  /\ last'.emitted = <<>>
                  /\ UNCHANGED <<registry, queue>>]_vars

\* C24: pausing the alive pipeline of the project, and playing it again with
\* a later start, leave the job list and the position in it, the proxies and
\* the assets, loading assets and failed assets as they are, make no pipeline
\* and issue no request.
C24_PauseResumeFrame ==
  [][(/\ proxy_pipeline \in DOMAIN pipelines
      /\ \/ last'.op = "pause_proxy_creation"
         \/ last'.op = "start_proxy_creation" /\ last'.paused)
       => /\ UNCHANGED <<create_proxies, proxies, registry>>
          /\ DOMAIN pipelines' \subseteq DOMAIN pipelines
          /\ last'.issued = <<>>]_vars
\* A start has played again the paused pipeline of a job of the list.
C24_Witness ==
  /\ last.op = "start_proxy_creation" /\ last.paused /\ last.ret
  /\ proxy_pipeline \in DOMAIN pipelines
  /\ pipelines[proxy_pipeline].state = "GST_STATE_PLAYING"
  /\ create_proxies.list # <<>>
  /\ proxies_creation_started /\ ~proxies_created

----------------------------------------------------------------------------
(* The timelines *)

\* The timelines a list holds.
InList(list) == {list[i] : i \in DOMAIN list}

\* C25: ges_project_use_proxies_for_timeline returns FALSE and leaves the
\* list as it is when the timeline is to be added and is in it, or to be
\* removed and is not in it; otherwise it returns TRUE and the timelines of
\* the list are those of before with that one added or removed; the list
\* never holds a timeline twice.
C25_UseProxies ==
  [][/\ last'.op = "use_proxies_for_timeline" =>
          LET timeline == last'.id
              before == InList(timeline_proxies)
              after == InList(timeline_proxies')
          IN  IF last'.use_proxies = (timeline \in before)
              THEN last'.ret = FALSE /\ timeline_proxies' = timeline_proxies
              ELSE /\ last'.ret = TRUE
                   /\ after = IF last'.use_proxies THEN before \cup {timeline}
                                                   ELSE before \ {timeline}
     /\ Cardinality(InList(timeline_proxies')) = Len(timeline_proxies')]_vars
\* A timeline of the list was passed to be added again, with another in the
\* list.
C25_Witness ==
  /\ last.op = "use_proxies_for_timeline" /\ last.use_proxies /\ ~last.ret
  /\ Len(timeline_proxies) = 2

\* C26: when new_proxy_asset_cb records a proxy, the clips whose asset has
\* the identifier the proxy was derived from, in the timelines that use
\* proxies then, are given the proxy, and every other clip keeps its asset.
C26_Rebind ==
  [][(last'.op = "new_proxy_asset_cb" /\ DOMAIN proxies' # DOMAIN proxies)
       => \A timeline \in Timelines :
            \A clip \in DOMAIN timelines[timeline] :
              timelines'[timeline][clip] =
                IF /\ g_list_find(timeline_proxies, timeline)
                   /\ _get_outuri(Priv, timelines[timeline][clip].id) = last'.id
                THEN proxies'[last'.id]
                ELSE timelines[timeline][clip]]_vars

----------------------------------------------------------------------------
(* The files *)

\* C27: a pipeline made for the source s writes to s.proxy.part; a file is
\* renamed only by bus_message_cb on GST_MESSAGE_EOS; and on GST_MESSAGE_EOS
\* of the pipeline of s the file of s.proxy.part is renamed to that of
\* s.proxy and s.proxy is the identifier recorded and requested, whatever the
\* text of s.
C27_Naming ==
  [][/\ \A pl \in DOMAIN pipelines' \ DOMAIN pipelines :
          pipelines'[pl].uri # NULL
            => pipelines'[pl].sink = pipelines'[pl].uri \o ".proxy.part"
     /\ last'.renamed # <<>>
          => last'.op = "bus_message_cb" /\ last'.message = "GST_MESSAGE_EOS"
     /\ (/\ last'.op = "bus_message_cb" /\ last'.message = "GST_MESSAGE_EOS"
         /\ proxy_pipeline \in DOMAIN pipelines
         /\ pipelines[proxy_pipeline].uri # NULL)
          => LET s == pipelines[proxy_pipeline].uri
             IN  /\ proxy_uri' = s \o ".proxy"
                 /\ \A i \in DOMAIN last'.issued :
                      last'.issued[i].id = s \o ".proxy"
                 /\ last'.renamed =
                      <<[old |-> g_filename_from_uri(s \o ".proxy.part"),
                         new |-> g_filename_from_uri(s \o ".proxy")]>>]_vars

\* C28: a proxy is recorded only under an identifier that a pipeline of
\* this project wrote to its GST_MESSAGE_EOS (priv->proxy_uri is that
\* identifier from then on, and the identifier of a source or of a file
\* being written otherwise), never by a request for the output identifier
\* alone, and no recorded proxy is removed.
C28_ProxyAfterTranscode ==
  [][/\ DOMAIN proxies \subseteq DOMAIN proxies'
     /\ \A id \in DOMAIN proxies' \ DOMAIN proxies : proxy_uri = id]_vars

----------------------------------------------------------------------------
(* The project URI *)

\* C29: the URI of a new project is the URI it was made with if that is
\* valid and none otherwise; a URI once set never changes; the URI changes
\* only in a save whose formatter saved, to the URI of that save; and such a
\* save of a project without URI sets it.
C29_WriteOnce ==
  /\ priv_uri = IF gst_uri_is_valid(last.id) THEN last.id ELSE NULL
  /\ [][/\ priv_uri # NULL => priv_uri' = priv_uri
        /\ priv_uri' # priv_uri
             => last'.op = "save" /\ last'.saved /\ priv_uri' = last'.id
        /\ (last'.op = "save" /\ last'.saved /\ priv_uri = NULL)
             => priv_uri' = last'.id]_vars
\* A project with a URI was saved to another location.
C29_Witness ==
  /\ last.op = "save" /\ last.saved
  /\ priv_uri # NULL /\ priv_uri # last.id

\* C30: ges_project_save returns TRUE only if ges_formatter_save_to_uri
\* returned TRUE; it returns FALSE for a timeline of another project, when no
\* formatter is extracted, and when the project has no URI, the timeline no
\* asset, and a project asset is cached for the URI; and priv->formatters
\* after it is what it was before.
C30_Save ==
  [][last'.op = "save" =>
       /\ last'.ret => last'.saved
       /\ timeline_assets[last'.timeline] = OtherProject => ~last'.ret
       /\ ~last'.extract_ok => ~last'.ret
       /\ (/\ priv_uri = NULL
           /\ timeline_assets[last'.timeline] = NULL
           /\ last'.cached) => ~last'.ret
       /\ formatters' = formatters]_vars

----------------------------------------------------------------------------
(* The end of a job *)

\* C31: when new_proxy_asset_cb records a proxy, the timelines that use
\* proxies are committed once each, with the proxy recorded and before the
\* callback requests or emits anything; then the request of the job before
\* the one the list is at is issued, or, with no job before it,
\* proxies-created is emitted.
C31_JobSuccessOrder ==
  [][(last'.op = "new_proxy_asset_cb" /\ DOMAIN proxies' # DOMAIN proxies)
       => /\ [i \in DOMAIN last'.committed |-> last'.committed[i].timeline]
               = timeline_proxies
          /\ \A i \in DOMAIN last'.committed :
               /\ last'.committed[i].recorded
               /\ last'.committed[i].emitted = 0
               /\ last'.committed[i].issued = 0
          /\ IF g_list_previous(create_proxies).at # 0
             THEN /\ Len(last'.issued) = 1
                  /\ last'.issued[1].id =
                       _get_outuri(Priv, g_list_data(g_list_previous(create_proxies)).id)
                  /\ Emissions(last', "proxies-created") = {}
             ELSE /\ last'.issued = <<>>
                  /\ Cardinality(Emissions(last', "proxies-created")) = 1]_vars

\* C32: when the pipeline of the job posts GST_MESSAGE_ERROR, the project
\* runs the relocation of the source: it requests an updated identifier, or
\* emits missing-uri, or emits error-loading-asset.
C32_EngineError ==
  [][(/\ last'.op = "bus_message_cb"
      /\ last'.message = "GST_MESSAGE_ERROR"
      /\ proxy_pipeline \in DOMAIN pipelines)
       => \/ last'.issued # <<>>
          \/ last'.mu.sent
          \/ Emissions(last', "error-loading-asset") # {}]_vars

----------------------------------------------------------------------------
(* The relocation *)

\* C33: a failed request emits missing-uri exactly when
\* ges_asset_request_id_update returned TRUE and gave no identifier; when it
\* returned FALSE the identifier of the request is put in
\* priv->loaded_with_error and error-loading-asset is emitted once.
C33_MissingUri ==
  [][(last'.op = "new_asset_cb" /\ last'.error # NULL)
       => /\ last'.mu.sent <=> (last'.update.ok /\ last'.update.new_id = NULL)
          /\ ~last'.update.ok
               => /\ last'.id \in loaded_with_error'
                  /\ Cardinality(Emissions(last', "error-loading-asset")) = 1
                  /\ last'.issued = <<>>]_vars
\* The asset proposed an identifier itself and no missing-uri was emitted.
C33_Witness ==
  /\ last.op = "new_asset_cb" /\ last.error # NULL
  /\ last.update.ok /\ last.update.new_id # NULL
  /\ ~last.mu.sent

----------------------------------------------------------------------------
(* The run *)

\* C34: ges_project_start_proxy_creation without an asset, with a profile of
\* the project, no asset loading, no URI clip among the assets, the
\* generation not started and no pipeline alive, emits
\* proxies-creation-started and then proxies-created, nothing else, and makes
\* no pipeline.
C34_EmptyRun ==
  [][(/\ last'.op = "start_proxy_creation" /\ last'.id = NULL
      /\ GST_IS_ENCODING_PROFILE(proxy_profile)
      /\ loading_assets = EmptyTable
      /\ \A id \in DOMAIN assets : ~GES_IS_URI_CLIP_ASSET(assets[id])
      /\ ~proxies_creation_started
      /\ DOMAIN pipelines = {})
       => /\ last'.emitted = <<Signal("proxies-creation-started"),
                               Signal("proxies-created")>>
          /\ pipelines' = pipelines
          /\ last'.issued = <<>>]_vars

\* C35: a generation that emitted proxies-creation-started comes to a visible
\* end: proxies-created, proxies-creation-cancelled or error-loading-asset is
\* emitted afterwards.
C35_VisibleEnd ==
  Emissions(last, "proxies-creation-started") # {}
    ~> \/ proxies_created
       \/ Emissions(last, "proxies-created") # {}
       \/ Emissions(last, "proxies-creation-cancelled") # {}
       \/ Emissions(last, "error-loading-asset") # {}

\* C36: a step that emits proxies-created is made in a generation that has
\* emitted proxies-creation-started, and after it every asset of the job list
\* has its proxy in priv->proxies.
C36_CreatedAfterStarted ==
  [][Emissions(last', "proxies-created") # {}
       => /\ proxies_creation_started'
          /\ \A i \in DOMAIN create_proxies'.list :
               g_hash_table_contains(
                 proxies', _get_outuri(Priv, create_proxies'.list[i].id))]_vars

\* C37: priv->proxy_pipeline is a pipeline exactly while that pipeline is
\* alive: it is NULL whenever no pipeline is, and every alive pipeline is the
\* one it holds.
C37_HandleCleared ==
  /\ proxy_pipeline # NoPipeline => proxy_pipeline \in DOMAIN pipelines
  /\ \A pipeline \in DOMAIN pipelines : pipeline = proxy_pipeline

\* C38: every pipeline a step makes transcodes an asset that is in
\* priv->assets when the step is made, under its identifier.
C38_EngineForLoadedAsset ==
  [][\A pipeline \in DOMAIN pipelines' \ DOMAIN pipelines :
       /\ pipelines'[pipeline].uri # NULL
       /\ g_hash_table_contains(assets, pipelines'[pipeline].uri)]_vars

\* C39: no step of the generation (a start, an answer to a request for a
\* proxy, a message of a pipeline, a pause, a cancellation) changes
\* priv->assets, priv->loading_assets or priv->loaded_with_error or emits
\* asset-added, asset-removed or error-loading-asset; the proxy of a
\* successful request is in priv->proxies.
C39_RegistryFrame ==
  [][last'.op \in {"start_proxy_creation", "new_proxy_asset_cb",
                   "bus_message_cb", "pause_proxy_creation",
                   "g_cancellable_cancel"}
       => /\ UNCHANGED <<assets, loading_assets, loaded_with_error>>
          /\ \A sig \in {"asset-added", "asset-removed", "error-loading-asset"} :
               Emissions(last', sig) = {}
          /\ (last'.op = "new_proxy_asset_cb" /\ last'.error = NULL)
               => g_hash_table_contains(proxies', last'.id)]_vars
\* A proxy has been recorded while one asset is loaded, one is loading and
\* timelines use proxies.
C39_Witness ==
  /\ last.op = "new_proxy_asset_cb" /\ last.error = NULL
  /\ g_hash_table_contains(proxies, last.id)
  /\ ~g_hash_table_contains(assets, last.id)
  /\ assets # EmptyTable /\ loading_assets # EmptyTable
  /\ last.committed # <<>>

\* C40: while the project has no profile, ges_project_start_proxy_creation
\* without an asset and ges_project_set_loaded emit no signal of the
\* generation, leave the job list and both flags of the generation as they
\* are, make no pipeline and issue no request; and once the project has a
\* profile, a start without an asset of a generation not yet started, with
\* no asset loading and no pipeline alive, emits proxies-creation-started
\* once.
C40_NoProfile ==
  [][LET call == \/ last'.op = "set_loaded"
                 \/ last'.op = "start_proxy_creation" /\ last'.id = NULL
     IN  /\ (call /\ ~GST_IS_ENCODING_PROFILE(proxy_profile))
              => /\ \A sig \in {"proxies-creation-started", "proxies-created",
                                 "proxies-creation-paused",
                                 "proxies-creation-cancelled"} :
                      Emissions(last', sig) = {}
                 /\ UNCHANGED <<create_proxies, proxies_creation_started,
                                proxies_created>>
                 /\ DOMAIN pipelines' \subseteq DOMAIN pipelines
                 /\ last'.issued = <<>>
         /\ (/\ last'.op = "start_proxy_creation" /\ last'.id = NULL
             /\ GST_IS_ENCODING_PROFILE(proxy_profile)
             /\ ~proxies_creation_started
             /\ loading_assets = EmptyTable
             /\ DOMAIN pipelines = {})
              => /\ Cardinality(Emissions(last', "proxies-creation-started")) = 1
                 /\ proxies_creation_started']_vars

====
